---- MODULE Spec2Model ----
(***************************************************************************)
(* A model of the virtual-memory simulator: the MMU (src/lib/mmu.js), the  *)
(* Process workload and the Kernel with its two replacers                  *)
(* (src/lib/cpu.js), and the RNG helpers rand / roll / choose.             *)
(*                                                                         *)
(* Every random draw of the program is a nondeterministic choice here.     *)
(* The ranges the program draws from (512..1024 frames, 32..64 pages,      *)
(* 1024..2048 references, ...) are scaled down to the small ranges below;  *)
(* the shape of every computation is kept.                                 *)
(***************************************************************************)
EXTENDS Integers, Sequences, FiniteSets, TLC

\* ---------------------------------------------------------------- bounds

\* frame table length: rand(512..1024) scaled to 1..MaxFrames
MaxFrames == 2
\* page table length: rand(32..64) scaled to 2..MaxPages
MaxPages == 2
\* process ttl: rand(1024..2048) scaled to 2..MaxTtl
MaxTtl == 2
\* working set ttl increment: rand(128..256) scaled to 1..MaxWorkingSetTtl
MaxWorkingSetTtl == 1
\* process time of one scheduling slot: rand(64..128) scaled to 1..MaxProcessTime
MaxProcessTime == 2
\* initial process count: rand(5..10) scaled to 1..MaxInitialCount
MaxInitialCount == 2
\* MAX_PROCESS_COUNT (25 in the program) scaled down
MAX_PROCESS_COUNT == 2
\* the processes ever created: Kernel.run spawns only while the processes it
\* is due to create keep their number within MaxSpawned
MaxSpawned == 2

\* the frames of the kernels the clock sweep is checked on
MaxClockFrames == 3

\* ------------------------------------------------------------- constants

\* the largest spawn count Kernel.run draws: rand({min: 1, max: 3})
MaxSpawnCount == 3
\* the smallest pid rand() draws (the largest, 9999, is scaled down)
PidMin == 1000
\* the value MMU.alloc returns when the free list is empty
NoFrame == -1
\* JavaScript's undefined, where the program reads a number: choose([]) and
\* the `frame` property of a PTE that was never bound
Undefined == -2

Min(a, b) == IF a <= b THEN a ELSE b

\* ------------------------------------------------------------------- RNG

\* rand({min, max}): every integer of the inclusive range
rand(min, max) == min..max

\* a rand() that returns its first draw whatever unique(num) says
randAny(min, max, taken) == min..max

\* rand({min, max, unique}): redrawn while unique(num) holds
randUnique(min, max, taken) == (min..max) \ taken

\* roll({threshold}) for a threshold strictly between 0 and 1
roll == BOOLEAN

\* choose(arr) = arr[floor(random * arr.length)]: arr[0] of an empty array
\* is undefined
choose(arr) == IF Len(arr) = 0 THEN {Undefined} ELSE {arr[i] : i \in 1..Len(arr)}

\* ------------------------------------------------------------------- MMU

\* new PageTableEntry(); `frame` is the property the kernel adds later
PageTableEntry ==
    [presented |-> FALSE, referenced |-> FALSE, modified |-> FALSE,
     fid |-> 0, frame |-> Undefined]

\* new Frame(fid)
Frame(fid) == [fid |-> fid, busy |-> FALSE, pid |-> 0, page |-> 0]

\* new MMU() with a frame table of n frames: frame fid is frameTable[fid + 1]
MMU(n) ==
    [frameTable |-> [i \in 1..n |-> Frame(i - 1)],
     busyTable |-> << >>,
     freeTable |-> [i \in 1..n |-> i - 1]]

\* mmu.get(fid)
get(mmu, fid) == mmu.frameTable[fid + 1]

\* Set.has on the insertion-ordered busy set
has(seq, x) == \E i \in 1..Len(seq) : seq[i] = x

\* Set.delete: the order of the remaining members is kept
delete(seq, x) == SelectSeq(seq, LAMBDA y : y # x)

\* the frame table with frame fid bound to (pid, page)
bind(mmu, fid, busy, pid, page) ==
    [mmu.frameTable EXCEPT ![fid + 1] =
        [fid |-> fid, busy |-> busy, pid |-> pid, page |-> page]]

\* the fid MMU.alloc returns
allocFid(mmu) ==
    IF Len(mmu.freeTable) = 0 THEN NoFrame
    ELSE mmu.freeTable[Len(mmu.freeTable)]

\* the MMU after alloc(pid, page)
alloc(mmu, pid, page) ==
    IF Len(mmu.freeTable) = 0 THEN mmu
    ELSE LET fid == mmu.freeTable[Len(mmu.freeTable)]
         IN [frameTable |-> bind(mmu, fid, TRUE, pid, page),
             busyTable |-> Append(mmu.busyTable, fid),
             freeTable |-> SubSeq(mmu.freeTable, 1, Len(mmu.freeTable) - 1)]

\* a free() that returns the frame to the head of the free list
freeUnshift(mmu, fid) ==
    IF ~has(mmu.busyTable, fid) THEN mmu
    ELSE [frameTable |-> bind(mmu, fid, FALSE, 0, 0),
          busyTable |-> delete(mmu.busyTable, fid),
          freeTable |-> <<fid>> \o mmu.freeTable]

\* a free() that forgets this.#busyTable.delete(fid)
freeKeepsBusy(mmu, fid) ==
    IF ~has(mmu.busyTable, fid) THEN mmu
    ELSE [frameTable |-> bind(mmu, fid, FALSE, 0, 0),
          busyTable |-> mmu.busyTable,
          freeTable |-> Append(mmu.freeTable, fid)]

\* the MMU after free(fid)
free(mmu, fid) ==
    IF ~has(mmu.busyTable, fid) THEN mmu
    ELSE [frameTable |-> bind(mmu, fid, FALSE, 0, 0),
          busyTable |-> delete(mmu.busyTable, fid),
          freeTable |-> Append(mmu.freeTable, fid)]

\* the MMU after realloc(fid, pid, page)
realloc(mmu, fid, pid, page) ==
    [mmu EXCEPT !.frameTable = bind(mmu, fid, TRUE, pid, page)]

\* ValidPage: pageTable[page] is an entry (not undefined)
ValidPage(pageTable, page) == page \in 0..(Len(pageTable) - 1)

\* the PTE after a successful mmu.access(.., modify)
accessed(pte, modify) ==
    [pte EXCEPT !.referenced = TRUE,
                !.modified = IF modify THEN TRUE ELSE pte.modified]

\* --------------------------------------------------------------- Process

\* the page indices of a page table of n entries, ascending
Pages(n) == [i \in 1..n |-> i - 1]

\* Process.#rotate: a new working set ttl and any partition of the pages
\* (one roll per page), both arrays in ascending page order
rotate(p) ==
    { [p EXCEPT !.workingSetTtl = @ + inc,
                !.workingSet = SelectSeq(Pages(Len(p.pageTable)), LAMBDA x : x \in ws),
                !.idleSet = SelectSeq(Pages(Len(p.pageTable)), LAMBDA x : x \notin ws)] :
        inc \in rand(1, MaxWorkingSetTtl),
        ws \in SUBSET (0..(Len(p.pageTable) - 1)) }

\* new Process(pid)
Process(pid) ==
    UNION { rotate([pid |-> pid,
                    pageTable |-> [i \in 1..n |-> PageTableEntry],
                    ttl |-> ttl,
                    idleSet |-> << >>,
                    workingSet |-> << >>,
                    workingSetTtl |-> 0,
                    counter |-> 0]) :
            n \in rand(2, MaxPages), ttl \in rand(2, MaxTtl) }

\* ------------------------------------------------------- the process map

\* the keys of the process map
LivePids(processes) == {processes[i].pid : i \in 1..Len(processes)}

\* Map.has(pid)
Live(processes, pid) == pid \in LivePids(processes)

\* the position of pid in the (insertion-ordered) process map
IndexOf(processes, pid) == CHOOSE i \in 1..Len(processes) : processes[i].pid = pid

\* processes.get(pid).pageTable[page]
pteOf(processes, pid, page) == processes[IndexOf(processes, pid)].pageTable[page + 1]

\* a write through the PTE reference processes.get(pid).pageTable[page]
setPte(processes, pid, page, pte) ==
    [processes EXCEPT ![IndexOf(processes, pid)].pageTable[page + 1] = pte]

\* Map.delete(pid)
remove(processes, pid) == SelectSeq(processes, LAMBDA p : p.pid # pid)

\* frame names a page of a live process
Resolves(processes, frame) ==
    /\ Live(processes, frame.pid)
    /\ ValidPage(processes[IndexOf(processes, frame.pid)].pageTable, frame.page)

\* ------------------------------------------------------------- replacers

\* the hand replace() starts from: Math.min(hand, busyTable.length - 1)
clamp(hand, busyTable) == Min(hand, Len(busyTable) - 1)

\* a sweep that forgets to move the hand
advanceNot(hand, busyTable) == hand

\* the hand after an inspection: (hand + 1) % busyTable.length
advance(hand, busyTable) == (hand + 1) % Len(busyTable)

\* a sweep that also takes the modify bit of the entries it passes
clearedBoth(pte) == [pte EXCEPT !.referenced = FALSE, !.modified = FALSE]

\* a sweep that forgets pte.referenced = false
clearedNot(pte) == pte

\* pte.referenced = false, the second chance of an inspected entry
cleared(pte) == [pte EXCEPT !.referenced = FALSE]

\* the inspections after which the model gives a sweep up as not ending
SweepLimit(busyTable) == 2 * Len(busyTable) + 2

\* ClockReplacer.replace, the while (true) loop from its n-th inspection on:
\* the process map with the reference bits it cleared, the hand it leaves,
\* the victim entry and the number of inspections
RECURSIVE ClockSweep(_, _, _, _, _)
ClockSweep(processes, mmu, busyTable, hand, n) ==
    IF Len(busyTable) = 0 \/ n >= SweepLimit(busyTable)
    THEN [processes |-> processes, hand |-> hand, crashed |-> TRUE,
          victim |-> << >>, inspections |-> n]
    ELSE LET fid == busyTable[hand + 1]
             next == advance(hand, busyTable)
             frame == get(mmu, fid)
         IN IF ~Resolves(processes, frame)
            THEN [processes |-> processes, hand |-> next, crashed |-> TRUE,
                  victim |-> << >>, inspections |-> n + 1]
            ELSE LET pte == pteOf(processes, frame.pid, frame.page)
                 IN IF ~pte.referenced
                    THEN [processes |-> processes, hand |-> next, crashed |-> FALSE,
                          victim |-> <<frame.pid, frame.page>>, inspections |-> n + 1]
                    ELSE ClockSweep(setPte(processes, frame.pid, frame.page, cleared(pte)),
                                    mmu, busyTable, next, n + 1)

\* ClockReplacer.replace
ClockReplace(processes, mmu, hand) ==
    { ClockSweep(processes, mmu, mmu.busyTable, clamp(hand, mmu.busyTable), 0) }

\* RandomReplacer.replace
RandomReplace(processes, mmu, hand) ==
    { IF fid = Undefined \/ ~Resolves(processes, get(mmu, fid))
      THEN [processes |-> processes, hand |-> hand, crashed |-> TRUE,
            victim |-> << >>, inspections |-> 0]
      ELSE [processes |-> processes, hand |-> hand, crashed |-> FALSE,
            victim |-> <<get(mmu, fid).pid, get(mmu, fid).page>>, inspections |-> 1] :
        fid \in choose(mmu.busyTable) }

\* this.#replacer.replace() for the policy the kernel was built with
replace(algo, processes, mmu, hand) ==
    IF algo = "clock" THEN ClockReplace(processes, mmu, hand)
    ELSE RandomReplace(processes, mmu, hand)

\* ---------------------------------------------------------------- Kernel

\* Kernel.#spawn(count): every process map the loop can leave
RECURSIVE spawnLoop(_, _)
spawnLoop(processes, left) ==
    IF left <= 0 THEN {processes}
    ELSE UNION { spawnLoop(Append(processes, p), left - 1) :
                 p \in UNION { Process(pid) :
                               pid \in randUnique(PidMin, PidMin + MAX_PROCESS_COUNT,
                                                  LivePids(processes)) } }

\* the number of iterations of the loop of Kernel.#spawn(count)
spawnIterations(count) == Min(count, MAX_PROCESS_COUNT)

spawn(processes, count) == spawnLoop(processes, spawnIterations(count))

\* a run() that passes the drawn count to #spawn as it is
spawnRequestAll(count, size) == count

\* the count Kernel.run passes to #spawn
spawnRequest(count, size) == Min(count, MAX_PROCESS_COUNT - size)

\* a #terminateProcess whose loop ends at the first frame it frees
RECURSIVE freeFramesFirst(_, _, _)
freeFramesFirst(mmu, pageTable, i) ==
    IF i > Len(pageTable) THEN mmu
    ELSE IF pageTable[i].presented THEN free(mmu, pageTable[i].frame)
    ELSE freeFramesFirst(mmu, pageTable, i + 1)

\* Kernel.#terminateProcess, the loop over the page table from entry i on
RECURSIVE freeFrames(_, _, _)
freeFrames(mmu, pageTable, i) ==
    IF i > Len(pageTable) THEN mmu
    ELSE freeFrames(IF pageTable[i].presented THEN free(mmu, pageTable[i].frame) ELSE mmu,
                    pageTable, i + 1)

\* what a syscall leaves: the kernel's fields, the exception caught ("none",
\* "PageFault", "TypeError"), whether an error escaped, and what the
\* replacer did
Outcome(processes, mmu, accessStats, hand, error, crashed, victim, inspections) ==
    [processes |-> processes, mmu |-> mmu, accessStats |-> accessStats, hand |-> hand,
     error |-> error, crashed |-> crashed, victim |-> victim, inspections |-> inspections]

\* Kernel.#terminateProcess(pid)
terminateProcess(k, pid) ==
    Outcome(remove(k.processes, pid),
            freeFrames(k.mmu, k.processes[IndexOf(k.processes, pid)].pageTable, 1),
            k.accessStats, k.hand, "none", FALSE, << >>, 0)

\* the fault counter after a page fault
countFault(accessStats) == [accessStats EXCEPT !.faults = @ + 1]

\* a replacement branch that counts a second fault instead
countReplacedAsFault(accessStats) == [accessStats EXCEPT !.faults = @ + 1]

\* the replacement counter after a fault that found no free frame
countReplaced(accessStats) == [accessStats EXCEPT !.replaced = @ + 1]

\* a fault handler that writes the victim back and takes its modify bit
evictClean(victim) == [victim EXCEPT !.presented = FALSE, !.modified = FALSE]

\* a fault handler that forgets victim.presented = false
evictNot(victim) == victim

\* victim.presented = false
evict(victim) == [victim EXCEPT !.presented = FALSE]

\* a fault handler that forgets pte.frame = fid
presentUnbound(pte, fid) == [pte EXCEPT !.presented = TRUE]

\* pte.presented = true; pte.frame = fid
present(pte, fid) == [pte EXCEPT !.presented = TRUE, !.frame = fid]

\* Kernel.#handlePageFault, the branch taken when alloc returned a fid
faultAlloc(k, pid, page) ==
    LET fid == allocFid(k.mmu)
        pte == pteOf(k.processes, pid, page)
    IN Outcome(setPte(k.processes, pid, page, present(pte, fid)),
               alloc(k.mmu, pid, page),
               countFault(k.accessStats), k.hand, "PageFault", FALSE, << >>, 0)

\* Kernel.#handlePageFault, the branch taken when alloc returned -1, for the
\* result r of replace()
faultReplace(k, pid, page, r) ==
    LET stats == countReplaced(countFault(k.accessStats))
    IN IF r.crashed
       THEN Outcome(r.processes, k.mmu, stats, r.hand, "PageFault", TRUE,
                    << >>, r.inspections)
       ELSE LET victim == pteOf(r.processes, r.victim[1], r.victim[2])
                fid == victim.frame
                evicted == setPte(r.processes, r.victim[1], r.victim[2], evict(victim))
                pte == pteOf(evicted, pid, page)
            IN IF fid \notin 0..(Len(k.mmu.frameTable) - 1)
               THEN Outcome(r.processes, k.mmu, stats, r.hand, "PageFault", TRUE,
                            r.victim, r.inspections)
               ELSE Outcome(setPte(evicted, pid, page, present(pte, fid)),
                            realloc(k.mmu, fid, pid, page),
                            stats, r.hand, "PageFault", FALSE, r.victim, r.inspections)

\* Kernel.#handlePageFault(pid, page)
handlePageFault(k, pid, page) ==
    IF allocFid(k.mmu) # NoFrame THEN { faultAlloc(k, pid, page) }
    ELSE { faultReplace(k, pid, page, r) :
           r \in replace(k.algo, k.processes, k.mmu, k.hand) }

\* a TypeError thrown in the try block of Kernel.syscall: caught, and
\* #handleException has no case for it
ignored(k) ==
    Outcome(k.processes, k.mmu, k.accessStats, k.hand, "TypeError", FALSE, << >>, 0)

\* Kernel.syscall(Syscall.Exit(pid))
syscallExit(k, pid) ==
    IF ~Live(k.processes, pid) THEN { ignored(k) }
    ELSE { terminateProcess(k, pid) }

\* Kernel.syscall(Syscall.AccessMemory(pid, page, modify))
syscallAccessMemory(k, pid, page, modify) ==
    IF ~Live(k.processes, pid) THEN { ignored(k) }
    ELSE IF ~ValidPage(k.processes[IndexOf(k.processes, pid)].pageTable, page)
    THEN { ignored(k) }
    ELSE IF ~pteOf(k.processes, pid, page).presented
    THEN handlePageFault(k, pid, page)
    ELSE { Outcome(setPte(k.processes, pid, page,
                          accessed(pteOf(k.processes, pid, page), modify)),
                   k.mmu, k.accessStats, k.hand, "none", FALSE, << >>, 0) }

\* what one call of Process.run did: the syscall it issued and its outcome
Ran(op, p, counter, page, modify, resident, terminated, out) ==
    [op |-> op, pid |-> p.pid, counter |-> counter, page |-> page, modify |-> modify,
     resident |-> resident, terminated |-> terminated, out |-> out]

\* a test that lets the process run one reference longer
expiredLate(counter, ttl) == counter > ttl

\* counter >= ttl, the test of Process.run that ends the process
expired(counter, ttl) == counter >= ttl

\* Process.run, the reference it emits once the counter is read and the
\* working set rotated: a set by the 0.9 roll, a page of it, a mode
emit(k, idx, counter) ==
    LET p == k.processes[idx]
    IN { Ran("access", p, counter, page, modify,
             ValidPage(p.pageTable, page) /\ p.pageTable[page + 1].presented,
             FALSE, out) :
         <<page, modify, out>> \in
            UNION { UNION { UNION { { <<page, modify, out>> :
                                      out \in syscallAccessMemory(k, p.pid, page, modify) } :
                                    modify \in roll } :
                            page \in choose(IF working THEN p.workingSet ELSE p.idleSet) } :
                    working \in roll } }

\* a run that reads the counter and leaves it as it is
postIncrementNot(counter) == counter

\* this.#counter after const counter = this.#counter++
postIncrement(counter) == counter + 1

\* Process.run(kernel) of the process at position idx of the process map
run(k, idx) ==
    LET p == k.processes[idx]
        counter == p.counter
        counted == [k EXCEPT !.processes[idx].counter = postIncrement(counter)]
    IN IF expired(counter, p.ttl)
       THEN { Ran("exit", p, counter, Undefined, FALSE, FALSE, TRUE, out) :
              out \in syscallExit(counted, p.pid) }
       ELSE UNION { emit([counted EXCEPT !.processes[idx] = q], idx, counter) :
                    q \in IF counter >= p.workingSetTtl
                          THEN rotate(counted.processes[idx])
                          ELSE {counted.processes[idx]} }

\* ----------------------------------------------------------------- state

VARIABLES
    processes,    \* Kernel.#processes: the Map, as its entries in insertion order
    mmu,          \* Kernel.#mmu
    accessStats,  \* Kernel.#accessStats
    algo,         \* the policy name the kernel was constructed with
    hand,         \* ClockReplacer.#hand
    pc,           \* where Kernel.run stands
    cursor,       \* the position of the for..of iterator in the process map
    processTime,  \* the slot drawn for the process at the cursor (0 outside the inner loop)
    i,            \* the inner loop counter of Kernel.run (0 outside the inner loop)
    spawned,      \* the number of processes created so far
    last,         \* what the step just taken did: the call of Process.run, or the spawn
    snapshot,     \* history: the pids of the process map when the tick began
    counters,     \* history: the counters of these processes when the tick began
    scheduled     \* history: the pids that were given a processTime in this tick

vars == <<processes, mmu, accessStats, algo, hand, pc, cursor, processTime, i,
          spawned, last, snapshot, counters, scheduled>>

\* the value of `last` after a step that neither ran a process nor spawned
Idle ==
    [op |-> "none", pid |-> 0, counter |-> 0, page |-> Undefined, modify |-> FALSE,
     resident |-> FALSE, terminated |-> FALSE, error |-> "none", victim |-> << >>,
     inspections |-> 0, count |-> 0]

\* the fields of the kernel the syscalls work on
Kernel ==
    [processes |-> processes, mmu |-> mmu, accessStats |-> accessStats,
     algo |-> algo, hand |-> hand]

\* new Kernel(algo) for a registered policy: the field initialisers, then
\* the constructor's spawn of the initial processes
Init ==
    /\ algo \in {"clock", "random"}
    /\ \E n \in rand(1, MaxFrames) : mmu = MMU(n)
    /\ \E count \in rand(1, MaxInitialCount) :
          /\ processes \in spawn(<< >>, count)
          /\ spawned = Len(processes)
    /\ accessStats = [total |-> 0, faults |-> 0, replaced |-> 0]
    /\ hand = 0
    /\ pc = "while"
    /\ cursor = 0
    /\ processTime = 0
    /\ i = 0
    /\ last = Idle
    /\ snapshot = << >>
    /\ counters = << >>
    /\ scheduled = << >>

\* the position of the for..of iterator after the inner loop: Map.delete of
\* the entry it stands on moves the later entries up to it
nextCursorSkip(at, terminated) == at + 1

\* the position of the for..of iterator of Kernel.run after the inner loop
\* of the process at the cursor
nextCursor(at, terminated) == IF terminated THEN at ELSE at + 1

\* a loop head that also goes on with an empty process map
runningOrEmpty(size) == size >= 0

\* this.#processes.size > 0, the condition of the while loop of Kernel.run
running(size) == size > 0

\* while (this.#processes.size > 0): a new tick, the iterator at the first entry
Tick ==
    /\ pc = "while"
    /\ running(Len(processes))
    /\ pc' = "for"
    /\ cursor' = 1
    /\ last' = Idle
    /\ snapshot' = [j \in 1..Len(processes) |-> processes[j].pid]
    /\ counters' = [j \in 1..Len(processes) |-> processes[j].counter]
    /\ scheduled' = << >>
    /\ UNCHANGED <<processes, mmu, accessStats, algo, hand, processTime, i, spawned>>

\* the while loop ends on an empty process map
Halt ==
    /\ pc = "while"
    /\ ~running(Len(processes))
    /\ pc' = "done"
    /\ last' = Idle
    /\ UNCHANGED <<processes, mmu, accessStats, algo, hand, cursor, processTime, i, spawned,
                   snapshot, counters, scheduled>>

\* for (const process of this.#processes.values()): the next process gets
\* its processTime
Schedule ==
    /\ pc = "for"
    /\ cursor <= Len(processes)
    /\ processTime' \in rand(1, MaxProcessTime)
    /\ i' = 0
    /\ pc' = "run"
    /\ last' = Idle
    /\ scheduled' = Append(scheduled, processes[cursor].pid)
    /\ UNCHANGED <<processes, mmu, accessStats, algo, hand, cursor, spawned, snapshot,
                   counters>>

\* one iteration of the inner loop: total++, process.run(this), and the
\* loop's exits (terminated, or i reaches processTime)
Step ==
    /\ pc = "run"
    /\ i < processTime
    /\ \E r \in run([Kernel EXCEPT !.accessStats.total = @ + 1], cursor) :
          /\ processes' = r.out.processes
          /\ mmu' = r.out.mmu
          /\ accessStats' = r.out.accessStats
          /\ hand' = r.out.hand
          /\ last' = [op |-> r.op, pid |-> r.pid, counter |-> r.counter,
                      page |-> r.page, modify |-> r.modify, resident |-> r.resident,
                      terminated |-> r.terminated, error |-> r.out.error,
                      victim |-> r.out.victim, inspections |-> r.out.inspections,
                      count |-> 0]
          /\ IF r.out.crashed
             THEN pc' = "crashed" /\ UNCHANGED <<cursor, processTime, i>>
             ELSE IF ~r.terminated /\ i + 1 < processTime
             THEN pc' = "run" /\ i' = i + 1 /\ UNCHANGED <<cursor, processTime>>
             ELSE /\ pc' = "for"
                  /\ processTime' = 0
                  /\ i' = 0
                  /\ cursor' = nextCursor(cursor, r.terminated)
    /\ UNCHANGED <<algo, spawned, snapshot, counters, scheduled>>

\* the for..of loop is through; the spawn roll fails or the map is full
NoSpawn ==
    /\ pc = "for"
    /\ cursor > Len(processes)
    /\ pc' = "while"
    /\ last' = Idle
    /\ snapshot' = << >>
    /\ counters' = << >>
    /\ scheduled' = << >>
    /\ UNCHANGED <<processes, mmu, accessStats, algo, hand, cursor, processTime, i, spawned>>

\* the for..of loop is through; the map is not full and the spawn roll succeeds
Spawn ==
    /\ pc = "for"
    /\ cursor > Len(processes)
    /\ Len(processes) < MAX_PROCESS_COUNT
    /\ \E count \in rand(1, MaxSpawnCount) :
          /\ spawned + Min(count, MAX_PROCESS_COUNT - Len(processes)) <= MaxSpawned
          /\ processes' \in spawn(processes, spawnRequest(count, Len(processes)))
          /\ spawned' = spawned + Len(processes') - Len(processes)
          /\ last' = [Idle EXCEPT !.op = "spawn", !.count = count]
    /\ pc' = "while"
    /\ snapshot' = << >>
    /\ counters' = << >>
    /\ scheduled' = << >>
    /\ UNCHANGED <<mmu, accessStats, algo, hand, cursor, processTime, i>>

Next == Tick \/ Halt \/ Schedule \/ Step \/ NoSpawn \/ Spawn

Spec == Init /\ [][Next]_vars

\* ------------------------------------------------- kernels in mid-run

\* A kernel in the middle of a run, about to step the one process that is
\* live: the process has n + 1 pages, of which pages 0..n-1 are resident in
\* the n frames (page k in frame k) with any reference and modify bits; its
\* last page is not resident: it is as it was created, or it was resident
\* before and was evicted, with the modify bit its accesses left, the
\* reference bit its eviction left (the clock policy evicts unreferenced
\* pages only) and the stale frame binding. Earlier faults, replacements
\* and the exit of an earlier process have left the frames in the busy set
\* in any insertion order and the clock hand anywhere on it.
InitMidRun ==
    /\ algo \in {"clock", "random"}
    /\ \E n \in 1..MaxClockFrames :
          /\ \E order \in Permutations(1..n) :
                mmu = [frameTable |-> [j \in 1..n |->
                                         [fid |-> j - 1, busy |-> TRUE,
                                          pid |-> PidMin, page |-> j - 1]],
                       busyTable |-> [j \in 1..n |-> order[j] - 1],
                       freeTable |-> << >>]
          /\ \E referenced \in [1..n -> BOOLEAN], modified \in [1..n -> BOOLEAN] :
             \E out \in {PageTableEntry} \cup
                         {[presented |-> FALSE, referenced |-> r, modified |-> m,
                           fid |-> 0, frame |-> f] :
                            r \in IF algo = "clock" THEN {FALSE} ELSE BOOLEAN,
                            m \in BOOLEAN, f \in 0..(n - 1)} :
                processes =
                    << [pid |-> PidMin,
                        pageTable |-> [j \in 1..(n + 1) |->
                            IF j <= n
                            THEN [presented |-> TRUE, referenced |-> referenced[j],
                                  modified |-> modified[j], fid |-> 0, frame |-> j - 1]
                            ELSE out],
                        ttl |-> 2 * n + 3,
                        idleSet |-> << >>,
                        workingSet |-> Pages(n + 1),
                        workingSetTtl |-> 2 * n + 3,
                        counter |-> 2 * n + 2] >>
          /\ hand \in IF algo = "clock" THEN 0..(n - 1) ELSE {0}
          /\ accessStats = [total |-> 2 * n + 5, faults |-> n + 3, replaced |-> 2]
    /\ pc = "run"
    /\ cursor = 1
    /\ processTime = 1
    /\ i = 0
    /\ spawned = 2
    /\ last = Idle
    /\ snapshot = <<PidMin>>
    /\ counters = <<processes[1].counter>>
    /\ scheduled = <<PidMin>>

\* the next call of Process.run in such a kernel
SpecMidRun == InitMidRun /\ [][Step]_vars

\* ---------------------------------------------------------------- claims

\* the fids of the busy set, and of the free list
BusyFids == {mmu.busyTable[j] : j \in 1..Len(mmu.busyTable)}
FreeFids == {mmu.freeTable[j] : j \in 1..Len(mmu.freeTable)}
AllFids == 0..(Len(mmu.frameTable) - 1)

\* the resident pages: <<position in the process map, page>>
Resident ==
    {x \in UNION {{<<j, page>> : page \in 0..(Len(processes[j].pageTable) - 1)} :
                  j \in 1..Len(processes)} :
        processes[x[1]].pageTable[x[2] + 1].presented}

\* the pages of the process at position j that are resident
ResidentOf(j) == {x \in Resident : x[1] = j}

\* C1: resident PTEs and busy frames are in bijection: the frame a resident
\* PTE is bound to is busy and names that process and page; every busy frame
\* names a live process whose PTE at frame.page is presented and bound to
\* it; and there are as many resident PTEs as busy fids.
C1_Bijection ==
    /\ \A x \in Resident :
          LET p == processes[x[1]]
              pte == p.pageTable[x[2] + 1]
          IN /\ pte.frame \in BusyFids
             /\ get(mmu, pte.frame).pid = p.pid
             /\ get(mmu, pte.frame).page = x[2]
    /\ \A fid \in BusyFids :
          LET frame == get(mmu, fid)
          IN /\ Resolves(processes, frame)
             /\ pteOf(processes, frame.pid, frame.page).presented
             /\ pteOf(processes, frame.pid, frame.page).frame = fid
    /\ Cardinality(Resident) = Cardinality(BusyFids)

\* C1's case: after an eviction, two live processes own a frame each
C1_Witness ==
    /\ accessStats.replaced > 0
    /\ Len(processes) = 2
    /\ ResidentOf(1) # {}
    /\ ResidentOf(2) # {}

\* C2: the busy set and the free list are disjoint, hold no fid twice and
\* together hold exactly the fids 0..totalFrames-1; Frame.busy is true
\* exactly for the fids of the busy set.
C2_FramePartition ==
    /\ BusyFids \cap FreeFids = {}
    /\ Cardinality(BusyFids) = Len(mmu.busyTable)
    /\ Cardinality(FreeFids) = Len(mmu.freeTable)
    /\ BusyFids \cup FreeFids = AllFids
    /\ \A fid \in AllFids : get(mmu, fid).busy <=> fid \in BusyFids

\* C2's case: an exit has returned frames after an eviction, another
\* process still holds one
C2_Witness ==
    /\ last.op = "exit"
    /\ accessStats.replaced > 0
    /\ Len(mmu.freeTable) > 0
    /\ Len(mmu.busyTable) > 0

\* C3, as claimed: when AccessMemory faults, on return the page is resident
\* and its PTE is referenced, and modified when the access was a write.
C3_FaultingAccessTakesEffect ==
    (last.op = "access" /\ last.error = "PageFault") =>
        LET pte == pteOf(processes, last.pid, last.page)
        IN /\ pte.presented
           /\ pte.referenced
           /\ last.modify => pte.modified

\* the frames the process at position j holds: those its resident PTEs are
\* bound to
HeldBy(j) ==
    {processes[j].pageTable[x[2] + 1].frame : x \in ResidentOf(j)}

\* C4: an Exit syscall removes the process from the map, leaves no busy
\* frame that names its pid, returns every frame it held to the free list
\* (the busy count falls by the number of its resident pages), and leaves
\* the other processes and their frames as they were.
C4_ExitFreesFrames ==
    [][last'.op = "exit" =>
          LET j == IndexOf(processes, last'.pid)
              held == HeldBy(j)
              n == Cardinality(ResidentOf(j))
          IN /\ ~Live(processes', last'.pid)
             /\ \A fid \in BusyFids' : get(mmu', fid).pid # last'.pid
             /\ Len(mmu'.busyTable) = Len(mmu.busyTable) - n
             /\ Len(mmu'.freeTable) = Len(mmu.freeTable) + n
             /\ held \subseteq FreeFids'
             /\ \A fid \in held : get(mmu', fid) = Frame(fid)
             /\ \A fid \in AllFids \ held :
                   /\ get(mmu', fid) = get(mmu, fid)
                   /\ fid \in BusyFids' <=> fid \in BusyFids
             /\ processes' = SelectSeq(processes, LAMBDA q : q.pid # last'.pid)
      ]_vars

\* C4's case: after an eviction the first process to exit has returned a
\* frame, and the frame of the other process is still busy
C4_Witness ==
    /\ last.op = "exit"
    /\ accessStats.replaced > 0
    /\ spawned = 2
    /\ Len(processes) = 1
    /\ Len(mmu.freeTable) = 1
    /\ Len(mmu.busyTable) = 1
    /\ get(mmu, mmu.busyTable[1]).pid = processes[1].pid

\* C5: at most MAX_PROCESS_COUNT processes are live.
C5_LiveCount == Len(processes) <= MAX_PROCESS_COUNT

\* C5's case: a spawn that asked for more processes than the map had room
\* for has filled the map
C5_Witness ==
    /\ last.op = "spawn"
    /\ last.count >= 2
    /\ Len(processes) = MAX_PROCESS_COUNT
    /\ spawned = Len(processes)

\* C6: total, faults and replaced never decrease and replaced <= faults <=
\* total; faults grows by one exactly on an AccessMemory to a page that is
\* not resident, replaced by one exactly when that fault finds the free
\* list empty.
C6_Counters ==
    [][LET pt == processes[IndexOf(processes, last'.pid)].pageTable
           fault == /\ last'.op = "access"
                    /\ ValidPage(pt, last'.page)
                    /\ ~pt[last'.page + 1].presented
       IN /\ accessStats'.total >= accessStats.total
          /\ accessStats'.faults >= accessStats.faults
          /\ accessStats'.replaced >= accessStats.replaced
          /\ accessStats'.replaced <= accessStats'.faults
          /\ accessStats'.faults <= accessStats'.total
          /\ accessStats'.faults = accessStats.faults + (IF fault THEN 1 ELSE 0)
          /\ accessStats'.replaced = accessStats.replaced +
                (IF fault /\ Len(mmu.freeTable) = 0 THEN 1 ELSE 0)
      ]_vars

\* C6's case: a fault that evicted, after a fault that found a free frame
C6_Witness ==
    /\ last.error = "PageFault"
    /\ last.victim # << >>
    /\ accessStats.replaced >= 1
    /\ accessStats.faults > accessStats.replaced

\* C7: a call of run with counter < ttl issues no Exit, returns false and
\* adds one to the counter; the call with counter = ttl issues Exit(pid) and
\* returns true; no call is made with a larger counter.
C7_Lifetime ==
    [][(pc = "run" /\ last'.op \in {"access", "exit"}) =>
          LET p == processes[cursor]
          IN /\ last'.pid = p.pid
             /\ last'.counter = p.counter
             /\ p.counter <= p.ttl
             /\ IF p.counter < p.ttl
                THEN /\ last'.op = "access"
                     /\ ~last'.terminated
                     /\ pc' # "crashed" => cursor' = IF i' = 0 THEN cursor + 1 ELSE cursor
                     /\ Live(processes', p.pid)
                     /\ processes'[IndexOf(processes', p.pid)].counter = p.counter + 1
                     /\ processes'[IndexOf(processes', p.pid)].ttl = p.ttl
                ELSE /\ last'.op = "exit"
                     /\ last'.terminated
                     /\ ~Live(processes', p.pid)
      ]_vars

\* C7's case: a process has exited on its call number ttl + 1
C7_Witness ==
    /\ last.op = "exit"
    /\ last.terminated
    /\ last.counter >= 2

\* C8: clock replace() inspects the busy frames in circular order from the
\* clamped hand h; its victim is the first inspected frame whose PTE is not
\* referenced, or the frame at h, on inspection |busy| + 1, when all are;
\* every PTE inspected before the victim is left unreferenced, the PTEs not
\* inspected keep their bits, and the victim's PTE is unreferenced.
C8_ClockSweep ==
    [][(algo = "clock" /\ last'.victim # << >>) =>
          LET busy == mmu.busyTable
              n == Len(busy)
              h == Min(hand, n - 1)
              frameAt(k) == get(mmu, busy[((h + k) % n) + 1])
              before(k) == pteOf(processes, frameAt(k).pid, frameAt(k).page)
              after(k) == pteOf(processes', frameAt(k).pid, frameAt(k).page)
              clear == {k \in 0..(n - 1) : ~before(k).referenced}
              first == IF clear = {} THEN n
                       ELSE CHOOSE k \in clear : \A m \in clear : k <= m
          IN /\ n > 0
             /\ last'.victim = <<frameAt(first).pid, frameAt(first).page>>
             /\ last'.inspections = first + 1
             /\ hand' = (h + first + 1) % n
             /\ ~after(first).referenced
             /\ \A k \in 0..(n - 1) :
                   /\ k < first => ~after(k).referenced
                   /\ k > first => after(k).referenced = before(k).referenced
                   /\ after(k).modified = before(k).modified
      ]_vars

\* C8's case: two busy frames, the hand at 0 and both pages referenced: the
\* third inspection has returned page 0, the first one inspected
C8_Witness ==
    /\ algo = "clock"
    /\ Len(mmu.busyTable) = 2
    /\ last.inspections = 3
    /\ last.victim = <<last.pid, 0>>
    /\ hand = 1
    /\ mmu.busyTable = <<0, 1>>

\* C9: every call of clock replace() by the fault handler returns, after at
\* most 2 * |busy| inspections.
C9_ClockProgress ==
    /\ pc # "crashed"
    /\ (algo = "clock" /\ last.victim # << >>) =>
          /\ last.inspections >= 1
          /\ last.inspections <= 2 * Len(mmu.busyTable)

\* C9's case: a sweep that had to clear a reference bit before it found its
\* victim among two busy frames
C9_Witness ==
    /\ algo = "clock"
    /\ last.victim # << >>
    /\ last.inspections = 2
    /\ Len(mmu.busyTable) = 2

\* C10, as claimed: every run step that does not issue Exit issues
\* AccessMemory for a valid page index (an empty chosen set falls back to
\* the other set).
C10_AccessValidPage ==
    last.op = "access" =>
        /\ Live(processes, last.pid)
        /\ ValidPage(processes[IndexOf(processes, last.pid)].pageTable, last.page)

\* C11, as claimed: once the process map is empty, no process is created
\* any more and no tick begins.
C11_EmptyMapEndsRun ==
    [][Len(processes) = 0 => (Len(processes') = 0 /\ pc' # "for")]_vars

\* C11, amended: the loop ends when the process map is empty at the head of
\* the while loop, that is once the spawn step of the tick in which the last
\* process exited has created none: then the run is over with no further
\* tick and no further process; whenever the map is empty all frames are
\* free; and the run ends in no other way.
C11_LoopEnds ==
    [][/\ (pc = "while" /\ Len(processes) = 0) =>
             /\ pc' = "done"
             /\ UNCHANGED <<processes, mmu, accessStats, hand, spawned>>
       /\ pc # "done"
       /\ pc' = "done" => (pc = "while" /\ Len(processes) = 0)
       /\ Len(processes') = 0 =>
             /\ Len(mmu'.busyTable) = 0
             /\ Len(mmu'.freeTable) = Len(mmu'.frameTable)
             /\ \A fid \in AllFids : get(mmu', fid) = Frame(fid)
      ]_vars

\* C11's case: the run is over after two frames were in use
C11_Witness ==
    /\ pc = "done"
    /\ Len(processes) = 0
    /\ accessStats.faults >= 2
    /\ Len(mmu.freeTable) = 2

\* C12, as claimed: Kernel.syscall recovers from PageFault only; any other
\* failure raised while it dispatches a syscall reaches the caller, so the
\* run does not go on after it.
C12_OtherFailuresAreFatal ==
    last.error \notin {"none", "PageFault"} => pc = "crashed"

\* C13: in every state with a non-empty busy set, replace() of the kernel's
\* policy returns the PTE of a page that is resident at the call; it leaves
\* every process and every PTE as it is except for referenced bits it turns
\* from true to false (presented, modified and the frame binding are kept);
\* the clock policy leaves its hand on the busy set, the random policy
\* changes no bit and no hand.
C13_ReplacerEffects ==
    Len(mmu.busyTable) > 0 =>
        \A r \in replace(algo, processes, mmu, hand) :
            /\ ~r.crashed
            /\ Len(r.victim) = 2
            /\ Live(processes, r.victim[1])
            /\ ValidPage(processes[IndexOf(processes, r.victim[1])].pageTable, r.victim[2])
            /\ pteOf(processes, r.victim[1], r.victim[2]).presented
            /\ pteOf(r.processes, r.victim[1], r.victim[2]).presented
            /\ Len(r.processes) = Len(processes)
            /\ \A j \in 1..Len(processes) :
                  LET p == processes[j]
                      q == r.processes[j]
                  IN /\ [q EXCEPT !.pageTable = p.pageTable] = p
                     /\ Len(q.pageTable) = Len(p.pageTable)
                     /\ \A k \in 1..Len(p.pageTable) :
                           /\ [q.pageTable[k] EXCEPT !.referenced = p.pageTable[k].referenced]
                                 = p.pageTable[k]
                           /\ q.pageTable[k].referenced => p.pageTable[k].referenced
            /\ algo = "clock" => r.hand \in 0..(Len(mmu.busyTable) - 1)
            /\ algo = "random" => (r.processes = processes /\ r.hand = hand)

\* C13's case: the random policy has just chosen a page of another process
\* among two busy frames
C13_Witness ==
    /\ algo = "random"
    /\ last.victim # << >>
    /\ last.victim[1] # last.pid
    /\ Len(mmu.busyTable) = 2

\* the (pid, page) pairs the round trips of C14 are tried with
Owners == (LivePids(processes) \cup {PidMin}) \X (0..(MaxPages - 1))

\* C14: in every state with a non-empty free list, fid = alloc(pid, page)
\* followed by free(fid) gives back the MMU as it was (the busy set and the
\* free list in the same order, frame fid with busy = false, pid = 0,
\* page = 0); a realloc(fid, pid2, page2) between the two changes nothing
\* of the result.
C14_AllocFreeRoundTrip ==
    Len(mmu.freeTable) > 0 =>
        \A o \in Owners :
            LET fid == allocFid(mmu)
                a == alloc(mmu, o[1], o[2])
                f == free(a, fid)
            IN /\ fid # NoFrame
               /\ a # mmu
               /\ has(a.busyTable, fid)
               /\ get(a, fid) = [fid |-> fid, busy |-> TRUE, pid |-> o[1], page |-> o[2]]
               /\ f = mmu
               /\ f.busyTable = mmu.busyTable
               /\ f.freeTable = mmu.freeTable
               /\ get(f, fid) = Frame(fid)
               /\ \A o2 \in Owners :
                     free(realloc(a, fid, o2[1], o2[2]), fid) = f

\* C14's case: an MMU whose free list and busy set both hold a frame, after
\* frames were taken and given back in another order than they were created
C14_Witness ==
    /\ last.op = "exit"
    /\ mmu.freeTable = <<1>>
    /\ mmu.busyTable = <<0>>

\* C15: a spawn with `live` processes in the map and a drawn count n adds
\* exactly min(n, MAX_PROCESS_COUNT - live) processes behind the existing
\* ones, which it leaves as they are; each new process is a fresh
\* Process(pid) whose pid is in the range rand() draws from and differs from
\* every pid in the map when it is drawn; at all times the pids of the map
\* are pairwise distinct and in range.
C15_Spawn ==
    /\ [](\A j \in 1..Len(processes) :
             /\ processes[j].pid \in PidMin..(PidMin + MAX_PROCESS_COUNT)
             /\ \A k \in 1..Len(processes) : processes[k].pid = processes[j].pid => k = j)
    /\ [][last'.op = "spawn" =>
             LET live == Len(processes)
             IN /\ Len(processes') = live + Min(last'.count, MAX_PROCESS_COUNT - live)
                /\ SubSeq(processes', 1, live) = processes
                /\ \A j \in (live + 1)..Len(processes') :
                      /\ processes'[j].pid \in PidMin..(PidMin + MAX_PROCESS_COUNT)
                      /\ \A k \in 1..(j - 1) : processes'[k].pid # processes'[j].pid
                      /\ processes'[j] \in Process(processes'[j].pid)
                /\ UNCHANGED <<mmu, accessStats>>
         ]_vars

\* C15's case: a spawn that drew 3 with one process live, which had already
\* run, has added the one process the map had room for
C15_Witness ==
    /\ last.op = "spawn"
    /\ last.count = 3
    /\ Len(processes) = 2
    /\ processes[1].counter > 0
    /\ processes[2].counter = 0

\* C16: a page fault taken while the free list is not empty calls no
\* replacer and evicts nothing: faults grows by one and replaced stays, the
\* frame at the end of the free list moves to the busy set bound to the
\* faulting (pid, page), the faulting PTE becomes presented and bound to it,
\* and every other PTE of every process and every other frame is as before.
C16_FaultWithFreeFrame ==
    [][(last'.op = "access" /\ last'.error = "PageFault" /\ Len(mmu.freeTable) > 0) =>
          LET fid == mmu.freeTable[Len(mmu.freeTable)]
              j == IndexOf(processes, last'.pid)
          IN /\ last'.victim = << >>
             /\ last'.inspections = 0
             /\ hand' = hand
             /\ accessStats'.faults = accessStats.faults + 1
             /\ accessStats'.replaced = accessStats.replaced
             /\ mmu'.freeTable = SubSeq(mmu.freeTable, 1, Len(mmu.freeTable) - 1)
             /\ mmu'.busyTable = Append(mmu.busyTable, fid)
             /\ get(mmu', fid) = [fid |-> fid, busy |-> TRUE,
                                   pid |-> last'.pid, page |-> last'.page]
             /\ \A f \in AllFids \ {fid} : get(mmu', f) = get(mmu, f)
             /\ ~pteOf(processes, last'.pid, last'.page).presented
             /\ pteOf(processes', last'.pid, last'.page).presented
             /\ pteOf(processes', last'.pid, last'.page).frame = fid
             /\ Len(processes') = Len(processes)
             /\ \A k \in 1..Len(processes) :
                   /\ processes'[k].pid = processes[k].pid
                   /\ Len(processes'[k].pageTable) = Len(processes[k].pageTable)
                   /\ \A pg \in 1..Len(processes[k].pageTable) :
                         (k # j \/ pg # last'.page + 1) =>
                            processes'[k].pageTable[pg] = processes[k].pageTable[pg]
      ]_vars

\* C16's case: the second fault of a run has found a free frame while a
\* page of the other process was resident
C16_Witness ==
    /\ last.op = "access"
    /\ last.error = "PageFault"
    /\ last.victim = << >>
    /\ accessStats.faults = 2
    /\ accessStats.replaced = 0
    /\ Len(processes) = 2
    /\ ResidentOf(1) # {}
    /\ ResidentOf(2) # {}

\* C17: within a tick only the processes of the map at tick start are given
\* a slot, in the order of the map and each once; a slot is at least one
\* and at most processTime calls of run on its process, and ends early only
\* when run returned true; by the end of the for loop every process of the
\* tick start has had its slot; a spawn comes after the for loop, so the
\* processes it adds wait for the next tick; and run is never called on a
\* process whose run returned true: the process called is in the map with
\* counter <= ttl, and a process whose run returned true has left the map.
C17_TickSnapshot ==
    /\ [](pc \in {"for", "run"} =>
             /\ Len(scheduled) <= Len(snapshot)
             /\ scheduled = SubSeq(snapshot, 1, Len(scheduled))
             /\ \A j, k \in 1..Len(snapshot) : snapshot[j] = snapshot[k] => j = k)
    /\ [](pc = "run" =>
             /\ processTime \in 1..MaxProcessTime
             /\ i \in 0..(processTime - 1)
             /\ cursor \in 1..Len(processes)
             /\ processes[cursor].pid = scheduled[Len(scheduled)])
    /\ [][/\ pc = "run" =>
               /\ last'.op \in {"access", "exit"}
               /\ last'.pid = scheduled[Len(scheduled)]
               /\ last'.pid \in {snapshot[j] : j \in 1..Len(snapshot)}
               /\ last'.counter <= processes[cursor].ttl
               /\ last'.terminated => (~Live(processes', last'.pid) /\ pc' = "for")
               /\ (pc' = "run") <=> (~last'.terminated /\ (i + 1 < processTime))
               /\ pc' = "run" => (i' = i + 1 /\ scheduled' = scheduled)
          /\ last'.op \in {"access", "exit"} => pc = "run"
          /\ (pc = "for" /\ pc' = "while") =>
               /\ scheduled = snapshot
               /\ \A j \in 1..Len(scheduled) :
                     Live(processes, scheduled[j]) =>
                        processes[IndexOf(processes, scheduled[j])].counter > 0
               /\ \A j \in (Len(processes) + 1)..Len(processes') :
                     processes'[j].counter = 0
          /\ last'.op = "spawn" => (pc = "for" /\ pc' = "while" /\ cursor > Len(processes))
      ]_vars

\* C17's case: in a tick that began with two processes the first has exited
\* in its slot and the second has then been stepped twice
C17_Witness ==
    /\ Len(snapshot) = 2
    /\ scheduled = snapshot
    /\ ~Live(processes, snapshot[1])
    /\ last.op = "access"
    /\ last.pid = snapshot[2]
    /\ pc = "for"
    /\ cursor = 2
    /\ processes[1].counter >= 2

\* C18, as claimed: whenever a PTE is presented, its fid field is the id of
\* the busy frame that names the PTE's process and page.
C18_PresentedFid ==
    \A x \in Resident :
        LET p == processes[x[1]]
            pte == p.pageTable[x[2] + 1]
        IN /\ pte.fid \in BusyFids
           /\ get(mmu, pte.fid).pid = p.pid
           /\ get(mmu, pte.fid).page = x[2]

\* C19: the page-fault handler writes no modify bit and no reference bit but
\* those a clock sweep clears. On a fault: every modify bit is as before;
\* a reference bit changes only from true to false, only under the clock
\* policy and only on a page that was resident; the incoming PTE keeps its
\* reference and modify bits and is presented; after a replacement the
\* victim, resident before, is not presented and keeps its modify bit (and
\* under the random policy its reference bit). No step at all takes the
\* modify bit of a page of a process that stays in the map, so a page
\* evicted with modified = true is modified when it is resident again.
C19_FaultKeepsBits ==
    [][/\ (last'.error = "PageFault" /\ pc' # "crashed") =>
             /\ Len(processes') = Len(processes)
             /\ \A k \in 1..Len(processes) :
                   /\ Len(processes'[k].pageTable) = Len(processes[k].pageTable)
                   /\ \A pg \in 1..Len(processes[k].pageTable) :
                         LET a == processes[k].pageTable[pg]
                             b == processes'[k].pageTable[pg]
                         IN /\ b.modified = a.modified
                            /\ b.referenced => a.referenced
                            /\ (algo = "random" \/ ~a.presented) =>
                                  b.referenced = a.referenced
             /\ LET a == pteOf(processes, last'.pid, last'.page)
                    b == pteOf(processes', last'.pid, last'.page)
                IN /\ ~a.presented
                   /\ b.presented
                   /\ b.referenced = a.referenced
                   /\ b.modified = a.modified
             /\ last'.victim # << >> =>
                   LET a == pteOf(processes, last'.victim[1], last'.victim[2])
                       b == pteOf(processes', last'.victim[1], last'.victim[2])
                   IN /\ a.presented
                      /\ ~b.presented
                      /\ b.modified = a.modified
                      /\ algo = "random" => b.referenced = a.referenced
       /\ \A k \in 1..Len(processes) :
             (k <= Len(processes') /\ processes'[k].pid = processes[k].pid) =>
                \A pg \in 1..Len(processes[k].pageTable) :
                   processes[k].pageTable[pg].modified =>
                      processes'[k].pageTable[pg].modified
      ]_vars

\* C19's case: a page that was evicted with modified = true has faulted in
\* again, for a victim that was modified too
C19_Witness ==
    /\ last.op = "access"
    /\ last.error = "PageFault"
    /\ last.victim # << >>
    /\ pteOf(processes, last.pid, last.page).presented
    /\ pteOf(processes, last.pid, last.page).modified
    /\ pteOf(processes, last.victim[1], last.victim[2]).modified
    /\ ~pteOf(processes, last.victim[1], last.victim[2]).presented

\* C20: every process exits within ttl + 1 calls of run, whatever faults,
\* evictions, spawns and exits come in between. The loop never stops short
\* of its end: a process that has its slot can be stepped. A process in the
\* map has made counter <= ttl calls; each call adds one to its counter;
\* the call made at counter = ttl, its call number ttl + 1, removes it and
\* leaves no busy frame that names it; and by the end of every tick each
\* process of the tick start has exited or has a larger counter than at
\* the tick start.
C20_EveryProcessExits ==
    /\ [](/\ pc # "crashed"
           /\ \A j \in 1..Len(processes) : processes[j].counter <= processes[j].ttl
           /\ pc = "run" =>
                 /\ i < processTime
                 /\ cursor \in 1..Len(processes)
                 /\ run([Kernel EXCEPT !.accessStats.total = @ + 1], cursor) # {})
    /\ [][/\ last'.op = "access" =>
                /\ Live(processes', last'.pid)
                /\ last'.counter < processes[cursor].ttl
                /\ processes'[IndexOf(processes', last'.pid)].counter = last'.counter + 1
          /\ last'.op = "exit" =>
                /\ last'.counter = processes[cursor].ttl
                /\ ~Live(processes', last'.pid)
                /\ \A fid \in BusyFids' : get(mmu', fid).pid # last'.pid
          /\ (pc = "for" /\ pc' = "while") =>
                \A j \in 1..Len(snapshot) :
                   Live(processes, snapshot[j]) =>
                      processes[IndexOf(processes, snapshot[j])].counter > counters[j]
         ]_vars

\* C20's case: the last of two processes has exited, after an eviction and
\* after pages of both were resident
C20_Witness ==
    /\ last.op = "exit"
    /\ Len(processes) = 0
    /\ spawned = 2
    /\ accessStats.replaced > 0
    /\ accessStats.faults >= 3

====
